---- MODULE Spec2Model ----
(***************************************************************************)
(* axact-ext: a sampler thread (main.rs:70-155) polls the host and         *)
(* publishes a CPU, a memory and a process snapshot on three tokio         *)
(* broadcast channels of capacity 1 (main.rs:49-51); one relay task per    *)
(* websocket connection (main.rs:172-216) subscribes to one channel and    *)
(* forwards every value it receives.                                       *)
(***************************************************************************)
EXTENDS Integers, Sequences, FiniteSets, TLC

\* ---------------------------------------------------------------- bounds
\* sampler cycles explored when the sampler runs alone
MaxCycle == 6
\* sampler cycles explored while viewers connect
MaxViewedCycle == 4
\* websocket connections accepted during a run
NumHandlers == 2
\* host inputs explored by the pure-function specifications
MaxProcs == 5
MaxCores == 2
MaxComponents == 2

\* ------------------------------------------------------ program constants
\* mutant: broadcast::channel(2)
CapacityTwo == 1 + 1

\* broadcast::channel(1)
Capacity == 1
\* if send_less_freq == 5
DecimationPeriod == 5
\* processes.truncate(4)
TopN == 4

Channels == {"cpus", "ram", "process"}
Handlers == 1..NumHandlers

VARIABLES
    \* host (what sysinfo reports)
    osProcs, osMem, osCpus, osComponents, core_temp,
    \* sampler thread
    pc, send_less_freq, cycle, memory_state, processes, cpu_state,
    sentNow, cycleLog,
    \* broadcast channels
    chan, pubs, lastSent,
    \* connection handlers
    hstate, route, rxNext, msg, got, wrote, subAt, closedBy

hostVars == <<osProcs, osMem, osCpus, osComponents, core_temp>>
samplerVars == <<pc, send_less_freq, cycle, memory_state, processes, cpu_state,
                 sentNow, cycleLog>>
chanVars == <<chan, pubs, lastSent>>
handlerVars == <<hstate, route, rxNext, msg, got, wrote, subAt, closedBy>>
vars == <<hostVars, samplerVars, chanVars, handlerVars>>

\* ------------------------------------------------------- sequence helpers
Min(a, b) == IF a <= b THEN a ELSE b

Last(s) == s[Len(s)]

SeqsUpTo(S, n) == UNION {[1..k -> S] : k \in 0..n}

\* ------------------------------------------------------- process ranking
\* proc.cpu_usage() as i32: the host's f32 percentage, held here in tenths
\* of a percent, truncated toward zero.
AsI32(tenths) == IF tenths >= 0 THEN tenths \div 10 ELSE -((-tenths) \div 10)

\* sys.processes().values().map(|proc| ProcessInfo {..}).collect()
CollectProcesses(procs) ==
    [i \in 1..Len(procs) |->
        [name |-> procs[i].name, cpu_usage |-> AsI32(procs[i].usage)]]

\* mutant: an ascending sort that puts equal keys in reverse input order
SortByKeyReversingTies(s) ==
    LET place == [i \in 1..Len(s) |->
                     Cardinality({j \in 1..Len(s) :
                        \/ s[j].cpu_usage < s[i].cpu_usage
                        \/ s[j].cpu_usage = s[i].cpu_usage /\ j >= i})]
    IN [k \in 1..Len(s) |-> s[CHOOSE i \in 1..Len(s) : place[i] = k]]

\* processes.sort_by_key(|proc_info| proc_info.cpu_usage): the slice's stable
\* ascending sort. The element at input position i lands after every element
\* with a smaller key and after the equal-keyed elements that preceded it.
SortByKey(s) ==
    LET place == [i \in 1..Len(s) |->
                     Cardinality({j \in 1..Len(s) :
                        \/ s[j].cpu_usage < s[i].cpu_usage
                        \/ s[j].cpu_usage = s[i].cpu_usage /\ j <= i})]
    IN [k \in 1..Len(s) |-> s[CHOOSE i \in 1..Len(s) : place[i] = k]]

\* mutant: the reverse() call is missing
ReverseNot(s) == s

\* processes.reverse()
Reverse(s) == [i \in 1..Len(s) |-> s[Len(s) + 1 - i]]

\* mutant: the list is cut at the front, keeping its last n entries
TruncateTail(s, n) == SubSeq(s, Len(s) - Min(n, Len(s)) + 1, Len(s))

\* processes.truncate(4)
Truncate(s, n) == SubSeq(s, 1, Min(n, Len(s)))

\* the list handed to process_broadcast.send (main.rs:81-91): collect, sort,
\* reverse, truncate, each stage applied to the value of the one before
RankProcesses(procs) ==
    CHOOSE out \in
        {Truncate(r, TopN) :
            r \in {Reverse(s) :
                s \in {SortByKey(c) : c \in {CollectProcesses(procs)}}}} : TRUE

\* ------------------------------------------------------ CPU snapshot
\* Option<f32>: None is the empty sequence, Some(t) the one-element sequence
None == <<>>

Some(t) == <<t>>

\* A sensor label is the sequence of its tokens ("coretemp Core 10" is
\* <<"coretemp", "Core", "1", "0">>); str::contains is substring search.
Contains(s, p) ==
    \E k \in 0..(Len(s) - Len(p)) : SubSeq(s, k + 1, k + Len(p)) = p

DigitChar == <<"0", "1", "2", "3", "4", "5", "6", "7", "8", "9">>

RECURSIVE Digits(_)
\* the decimal digits format!("{}", i) prints
Digits(i) ==
    IF i < 10 THEN <<DigitChar[i + 1]>>
    ELSE Digits(i \div 10) \o <<DigitChar[(i % 10) + 1]>>

\* format!("coretemp Core {}", i)
CorePattern(i) == <<"coretemp", "Core">> \o Digits(i)

\* cfg(not(feature = "core_temp")): one core per usage, temp None
CoresPlain(usages) ==
    [i \in 1..Len(usages) |-> [usage |-> usages[i], temp |-> None]]

\* the inner loop over components for the core with index idx: one push per
\* component whose label contains the core's pattern
PushesFor(idx, usage, components) ==
    LET m == SelectSeq(components, LAMBDA c : Contains(c.label, CorePattern(idx)))
    IN [k \in 1..Len(m) |-> [usage |-> usage, temp |-> Some(m[k].temperature)]]

RECURSIVE CoresFrom(_, _, _)
\* cfg(feature = "core_temp"): the outer loop over cpu_usages, from the i-th
CoresFrom(usages, components, i) ==
    IF i > Len(usages) THEN <<>>
    ELSE PushesFor(i - 1, usages[i], components)
         \o CoresFrom(usages, components, i + 1)

CoresWithTemp(usages, components) == CoresFrom(usages, components, 1)

\* the loop over sys.components() for the overall temperature: the last
\* matching component wins, 0. when none matches
PackageTemp(components) ==
    LET m == SelectSeq(components,
                 LAMBDA c : \/ Contains(c.label, <<"coretemp", "Package">>)
                            \/ Contains(c.label, <<"cpu_thermal">>))
    IN IF m = <<>> THEN 0 ELSE Last(m).temperature

\* the CpuState handed to cpus_broadcast.send
BuildCpuState(feature, usages, components) ==
    [cores     |-> IF feature THEN CoresWithTemp(usages, components)
                   ELSE CoresPlain(usages),
     temp      |-> PackageTemp(components),
     core_temp |-> feature]

\* the MemState handed to ram_broadcast.send
BuildMemState(mem) == [total |-> mem.total, used |-> mem.used]

\* ------------------------------------------------- broadcast channel
\* broadcast::channel(capacity): tail position, receiver count and a ring of
\* slots, slot i starting at position i - capacity with no value. The
\* Receiver of the pair is dropped at once (let (tx, _) = ..). num_tx counts
\* the Senders: when the sampler starts these are the original, moved into the
\* sampler's closure, its clone in app_state and the clone of that in the
\* router's state (main.rs:49-70).
NewChannel ==
    [pos    |-> 0,
     rx_cnt |-> 0,
     num_tx |-> 3,
     buffer |-> [i \in 0..(Capacity - 1) |-> [pos |-> i - Capacity, val |-> None]]]

\* Sender::send: with no receiver the value is handed back in an Err and the
\* channel is untouched; otherwise it overwrites the slot at the tail
ChannelSend(ch, v) ==
    IF ch.rx_cnt = 0 THEN ch
    ELSE [ch EXCEPT !.pos = @ + 1,
                    !.buffer[ch.pos % Capacity] = [pos |-> ch.pos, val |-> Some(v)]]

\* Sender::subscribe: one more receiver
ChannelSubscribe(ch) == [ch EXCEPT !.rx_cnt = @ + 1]

\* mutant: a new receiver starts at the newest retained value
SubscribePosBacklog(ch) == IF ch.pos > 0 THEN ch.pos - 1 ELSE 0

\* Sender::subscribe: the new receiver's next position is the tail
SubscribePos(ch) == ch.pos

\* mutant: dropping one Receiver forgets them all
ChannelUnsubscribeAll(ch) == [ch EXCEPT !.rx_cnt = 0]

\* dropping a Receiver
ChannelUnsubscribe(ch) == [ch EXCEPT !.rx_cnt = @ - 1]

\* Sender::clone, once per request that extracts State(state)
ChannelCloneSender(ch) == [ch EXCEPT !.num_tx = @ + 1]

\* mutant: the handler's Senders were the only ones, so that dropping them
\* closes the channel
ChannelDropLastSender(ch) == [ch EXCEPT !.num_tx = 0]

\* dropping a Sender
ChannelDropSender(ch) == [ch EXCEPT !.num_tx = @ - 1]

\* mutant: a receiver that was overtaken is handed the retained value
RecvOutcomeSkipping(ch, next) ==
    LET slot == ch.buffer[next % Capacity]
    IN IF slot.pos >= next THEN "ok"
       ELSE IF ch.num_tx = 0 THEN "closed" ELSE "empty"

\* Receiver::recv for a receiver whose next position is next: the value at
\* that position; nothing there yet, which is an error once every Sender is
\* gone and a wait otherwise; or the position was overwritten
RecvOutcome(ch, next) ==
    LET slot == ch.buffer[next % Capacity]
    IN IF slot.pos = next THEN "ok"
       ELSE IF slot.pos + Capacity = next
            THEN (IF ch.num_tx = 0 THEN "closed" ELSE "empty")
       ELSE "lagged"

RecvValue(ch, next) == ch.buffer[next % Capacity].val[1]

\* ---------------------------------------------------------- host inputs
\* a host process list: names are the enumeration positions
MkProcs(u) == [i \in 1..Len(u) |-> [name |-> i, usage |-> u[i]]]

\* cpu_usage percentages in tenths: -1.5, 0.0, 0.9, 1.0, 2.5
ProcUsages == {-15, 0, 9, 10, 25}

\* six processes whose usages truncate to 3, 50, 50, 12, 0, 7
ScenarioProcs == MkProcs(<<35, 501, 509, 120, 4, 79>>)

ProcInputs == {MkProcs(u) : u \in SeqsUpTo(ProcUsages, MaxProcs)} \cup {ScenarioProcs}

\* per-core usages in tenths of a percent
CoreUsages == {100, 200}

\* four cores at 10.0, 20.0, 5.5 and 99.9 percent
ScenarioCpus == <<100, 200, 55, 999>>

CpuInputs == SeqsUpTo(CoreUsages, MaxCores) \cup {ScenarioCpus}

SensorLabels ==
    { <<"coretemp", "Core", "0">>,
      <<"coretemp", "Core", "1">>,
      <<"coretemp", "Core", "1", "0">>,
      <<"coretemp", "Package", "id", "0">>,
      <<"cpu_thermal">>,
      <<"acpitz">> }

SensorTemps == {45, 60}

ComponentInputs ==
    SeqsUpTo([label : SensorLabels, temperature : SensorTemps], MaxComponents)

\* memory in units of 10^9 bytes
ScenarioMem == [total |-> 16, used |-> 8]

\* ------------------------------------------------------------ initial state
\* main.rs:49-68: three empty channels, send_less_freq = 0, no connection
InitProgram ==
    /\ pc = "top"
    /\ send_less_freq = 0
    /\ cycle = 0
    /\ memory_state = None
    /\ processes = None
    /\ cpu_state = None
    /\ sentNow = [start |-> 0, kinds |-> {}]
    /\ cycleLog = <<>>
    /\ chan = [c \in Channels |-> NewChannel]
    /\ pubs = [c \in Channels |-> 0]
    /\ lastSent = [c \in Channels |-> None]
    /\ hstate = [h \in Handlers |-> "Upgrading"]
    /\ route = [h \in Handlers |-> "none"]
    /\ rxNext = [h \in Handlers |-> 0]
    /\ msg = [h \in Handlers |-> None]
    /\ got = [h \in Handlers |-> <<>>]
    /\ wrote = [h \in Handlers |-> <<>>]
    /\ subAt = [h \in Handlers |-> 0]
    /\ closedBy = [h \in Handlers |-> "none"]

\* the host of the specification's scenarios, default build
Init ==
    /\ osProcs = ScenarioProcs
    /\ osMem = ScenarioMem
    /\ osCpus = ScenarioCpus
    /\ osComponents = <<>>
    /\ core_temp = FALSE
    /\ InitProgram

\* every host process list within the bounds
InitProc ==
    /\ osProcs \in ProcInputs
    /\ osMem = ScenarioMem
    /\ osCpus = ScenarioCpus
    /\ osComponents = <<>>
    /\ core_temp = FALSE
    /\ InitProgram

\* every core list and sensor list within the bounds, both builds
InitCpu ==
    /\ osProcs = ScenarioProcs
    /\ osMem = ScenarioMem
    /\ osCpus \in CpuInputs
    /\ osComponents \in ComponentInputs
    /\ core_temp \in BOOLEAN
    /\ InitProgram

\* ------------------------------------------------------------------ sampler
\* mutant: the counter is compared before it is incremented
NextCounterLate(n) == IF n = DecimationPeriod THEN 0 ELSE n + 1

\* the decimation counter after one cycle (main.rs:99-102)
NextCounter(n) == IF n + 1 = DecimationPeriod THEN 0 ELSE n + 1

\* mutant: <c>_broadcast.send(payload).unwrap(), which needs a subscriber
PublishUnwrap(c, payload) ==
    /\ chan[c].rx_cnt > 0
    /\ pubs' = [pubs EXCEPT ![c] = @ + 1]
    /\ chan' = [chan EXCEPT ![c] = ChannelSend(@, [seq |-> pubs[c] + 1, data |-> payload])]
    /\ lastSent' = [lastSent EXCEPT ![c] = Some(payload)]

\* let _ = <c>_broadcast.send(payload): the result is discarded
Publish(c, payload) ==
    /\ pubs' = [pubs EXCEPT ![c] = @ + 1]
    /\ chan' = [chan EXCEPT ![c] = ChannelSend(@, [seq |-> pubs[c] + 1, data |-> payload])]
    /\ lastSent' = [lastSent EXCEPT ![c] = Some(payload)]

\* main.rs:71-96, a cycle that starts with the counter at 0: refresh, build
\* the memory snapshot and the process list, publish the memory snapshot
SendRam ==
    /\ pc = "top"
    /\ cycle < MaxCycle
    /\ send_less_freq = 0
    /\ memory_state' = Some(BuildMemState(osMem))
    /\ processes' = Some(RankProcesses(osProcs))
    /\ Publish("ram", BuildMemState(osMem))
    /\ sentNow' = [start |-> send_less_freq, kinds |-> {"ram"}]
    /\ pc' = "send_proc"
    /\ UNCHANGED <<send_less_freq, cycle, cpu_state, cycleLog>>
    /\ UNCHANGED <<hostVars, handlerVars>>

\* main.rs:97
SendProcess ==
    /\ pc = "send_proc"
    /\ Publish("process", processes[1])
    /\ sentNow' = [sentNow EXCEPT !.kinds = @ \cup {"process"}]
    /\ pc' = "send_cpu"
    /\ UNCHANGED <<send_less_freq, cycle, memory_state, processes, cpu_state, cycleLog>>
    /\ UNCHANGED <<hostVars, handlerVars>>

\* mutant: the CPU publish waits until no subscriber holds an unwritten value
SendCpuBackpressure ==
    /\ IF pc = "top" THEN cycle < MaxCycle /\ send_less_freq # 0
       ELSE pc = "send_cpu"
    /\ \A h \in Handlers : ~(hstate[h] = "Writing" /\ route[h] = "cpus")
    /\ send_less_freq' = NextCounter(send_less_freq)
    /\ cpu_state' = Some(BuildCpuState(core_temp, osCpus, osComponents))
    /\ Publish("cpus", BuildCpuState(core_temp, osCpus, osComponents))
    /\ sentNow' = [start |-> NextCounter(send_less_freq), kinds |-> {}]
    /\ cycleLog' = Append(cycleLog,
           [start |-> send_less_freq,
            kinds |-> (IF pc = "top" THEN {} ELSE sentNow.kinds) \cup {"cpus"}])
    /\ cycle' = cycle + 1
    /\ pc' = "top"
    /\ UNCHANGED <<memory_state, processes>>
    /\ UNCHANGED <<hostVars, handlerVars>>

\* main.rs:99-154, reached from line 97 or, when the counter is not 0, from
\* line 72: step the counter, build and publish the CPU snapshot, sleep
SendCpu ==
    /\ IF pc = "top" THEN cycle < MaxCycle /\ send_less_freq # 0
       ELSE pc = "send_cpu"
    /\ send_less_freq' = NextCounter(send_less_freq)
    /\ cpu_state' = Some(BuildCpuState(core_temp, osCpus, osComponents))
    /\ Publish("cpus", BuildCpuState(core_temp, osCpus, osComponents))
    /\ sentNow' = [start |-> NextCounter(send_less_freq), kinds |-> {}]
    /\ cycleLog' = Append(cycleLog,
           [start |-> send_less_freq,
            kinds |-> (IF pc = "top" THEN {} ELSE sentNow.kinds) \cup {"cpus"}])
    /\ cycle' = cycle + 1
    /\ pc' = "top"
    /\ UNCHANGED <<memory_state, processes>>
    /\ UNCHANGED <<hostVars, handlerVars>>

Sampler == SendRam \/ SendProcess \/ SendCpu

\* ------------------------------------------------------ connection handlers
\* mutant: a handler that has ended subscribes again
ConnectOrReconnect(h, c) ==
    /\ hstate[h] \in {"Upgrading", "Closed"}
    /\ IF h = 1 THEN TRUE ELSE hstate[h - 1] # "Upgrading"
    /\ route' = [route EXCEPT ![h] = c]
    /\ rxNext' = [rxNext EXCEPT ![h] = SubscribePos(chan[c])]
    /\ chan' = [d \in Channels |->
                   IF d = c THEN ChannelSubscribe(ChannelCloneSender(chan[d]))
                   ELSE ChannelCloneSender(chan[d])]
    /\ subAt' = [subAt EXCEPT ![h] = pubs[c]]
    /\ hstate' = [hstate EXCEPT ![h] = "Receiving"]
    /\ UNCHANGED <<msg, got, wrote, closedBy, pubs, lastSent>>
    /\ UNCHANGED <<hostVars, samplerVars>>

\* realtime_*_get and the first line of realtime_*_stream (main.rs:164-173,
\* 182-191, 200-209): a viewer's upgrade on route c is accepted, the task gets
\* its own clone of AppState (a Sender of each channel) and subscribes;
\* connections are numbered in accept order
Connect(h, c) ==
    /\ hstate[h] = "Upgrading"
    /\ IF h = 1 THEN TRUE ELSE hstate[h - 1] # "Upgrading"
    /\ route' = [route EXCEPT ![h] = c]
    /\ rxNext' = [rxNext EXCEPT ![h] = SubscribePos(chan[c])]
    /\ chan' = [d \in Channels |->
                   IF d = c THEN ChannelSubscribe(ChannelCloneSender(chan[d]))
                   ELSE ChannelCloneSender(chan[d])]
    /\ subAt' = [subAt EXCEPT ![h] = pubs[c]]
    /\ hstate' = [hstate EXCEPT ![h] = "Receiving"]
    /\ UNCHANGED <<msg, got, wrote, closedBy, pubs, lastSent>>
    /\ UNCHANGED <<hostVars, samplerVars>>

\* mutant: a receive that leaves the receiver's position where it was
RecvOkNoAdvance(h) ==
    /\ hstate[h] = "Receiving"
    /\ RecvOutcome(chan[route[h]], rxNext[h]) = "ok"
    /\ msg' = [msg EXCEPT ![h] = Some(RecvValue(chan[route[h]], rxNext[h]))]
    /\ got' = [got EXCEPT ![h] = Append(@, RecvValue(chan[route[h]], rxNext[h]).seq)]
    /\ hstate' = [hstate EXCEPT ![h] = "Writing"]
    /\ UNCHANGED <<route, rxNext, wrote, subAt, closedBy>>
    /\ UNCHANGED <<hostVars, samplerVars, chanVars>>

\* while let Ok(msg) = rx.recv().await (main.rs:175): a value is there
RecvOk(h) ==
    /\ hstate[h] = "Receiving"
    /\ RecvOutcome(chan[route[h]], rxNext[h]) = "ok"
    /\ msg' = [msg EXCEPT ![h] = Some(RecvValue(chan[route[h]], rxNext[h]))]
    /\ got' = [got EXCEPT ![h] = Append(@, RecvValue(chan[route[h]], rxNext[h]).seq)]
    /\ rxNext' = [rxNext EXCEPT ![h] = @ + 1]
    /\ hstate' = [hstate EXCEPT ![h] = "Writing"]
    /\ UNCHANGED <<route, wrote, subAt, closedBy>>
    /\ UNCHANGED <<hostVars, samplerVars, chanVars>>

\* mutant: the ending task takes a receiver off every channel
CloseAllRoutes(h, why) ==
    /\ hstate' = [hstate EXCEPT ![h] = "Closed"]
    /\ closedBy' = [closedBy EXCEPT ![h] = why]
    /\ chan' = [d \in Channels |->
                   IF chan[d].rx_cnt > 0 THEN ChannelUnsubscribe(ChannelDropSender(chan[d]))
                   ELSE ChannelDropSender(chan[d])]
    /\ rxNext' = [rxNext EXCEPT ![h] = 0]
    /\ msg' = [msg EXCEPT ![h] = None]
    /\ got' = [got EXCEPT ![h] = <<>>]
    /\ wrote' = [wrote EXCEPT ![h] = <<>>]
    /\ subAt' = [subAt EXCEPT ![h] = 0]

\* the handler's task ends: its Receiver and its AppState are dropped
Close(h, why) ==
    /\ hstate' = [hstate EXCEPT ![h] = "Closed"]
    /\ closedBy' = [closedBy EXCEPT ![h] = why]
    /\ chan' = [d \in Channels |->
                   IF d = route[h] THEN ChannelUnsubscribe(ChannelDropSender(chan[d]))
                   ELSE ChannelDropSender(chan[d])]
    /\ rxNext' = [rxNext EXCEPT ![h] = 0]
    /\ msg' = [msg EXCEPT ![h] = None]
    /\ got' = [got EXCEPT ![h] = <<>>]
    /\ wrote' = [wrote EXCEPT ![h] = <<>>]
    /\ subAt' = [subAt EXCEPT ![h] = 0]

\* mutant: on Err(Lagged) the loop goes on from the oldest retained value
RecvLaggedResync(h) ==
    /\ hstate[h] = "Receiving"
    /\ RecvOutcome(chan[route[h]], rxNext[h]) \in {"lagged", "closed"}
    /\ rxNext' = [rxNext EXCEPT ![h] = chan[route[h]].pos - Capacity]
    /\ UNCHANGED <<hstate, route, msg, got, wrote, subAt, closedBy>>
    /\ UNCHANGED <<hostVars, samplerVars, chanVars>>

\* mutant: a receive that does not wait (try_recv), so that finding no value
\* is an error too
RecvErrOrEmpty(h) ==
    /\ hstate[h] = "Receiving"
    /\ RecvOutcome(chan[route[h]], rxNext[h]) # "ok"
    /\ Close(h, RecvOutcome(chan[route[h]], rxNext[h]))
    /\ UNCHANGED <<route, pubs, lastSent>>
    /\ UNCHANGED <<hostVars, samplerVars>>

\* rx.recv() returns an Err, Lagged or Closed: the while-let loop ends, the
\* function returns (main.rs:175, 180)
RecvLagged(h) ==
    /\ hstate[h] = "Receiving"
    /\ RecvOutcome(chan[route[h]], rxNext[h]) \in {"lagged", "closed"}
    /\ Close(h, RecvOutcome(chan[route[h]], rxNext[h]))
    /\ UNCHANGED <<route, pubs, lastSent>>
    /\ UNCHANGED <<hostVars, samplerVars>>

\* ws.send(Message::Text(..)).await returns Ok (main.rs:176-178)
WriteOk(h) ==
    /\ hstate[h] = "Writing"
    /\ wrote' = [wrote EXCEPT ![h] = Append(@, msg[h][1].seq)]
    /\ msg' = [msg EXCEPT ![h] = None]
    /\ hstate' = [hstate EXCEPT ![h] = "Receiving"]
    /\ UNCHANGED <<route, rxNext, got, subAt, closedBy>>
    /\ UNCHANGED <<hostVars, samplerVars, chanVars>>

\* mutant: the panic of a failed write takes the whole process down
WriteFailAbort(h) ==
    /\ hstate[h] = "Writing"
    /\ hstate' = [g \in Handlers |-> "Closed"]
    /\ closedBy' = [g \in Handlers |-> IF hstate[g] = "Closed" THEN closedBy[g] ELSE "panic"]
    /\ pc' = "aborted"
    /\ UNCHANGED <<route, rxNext, msg, got, wrote, subAt>>
    /\ UNCHANGED <<send_less_freq, cycle, memory_state, processes, cpu_state,
                   sentNow, cycleLog>>
    /\ UNCHANGED <<hostVars, chanVars>>

\* ws.send(..).await returns Err and unwrap() panics (main.rs:176-178): the
\* runtime catches the unwinding task, whose locals are dropped
WriteFail(h) ==
    /\ hstate[h] = "Writing"
    /\ Close(h, "panic")
    /\ UNCHANGED <<route, pubs, lastSent>>
    /\ UNCHANGED <<hostVars, samplerVars>>

\* serde_json::to_string(&msg).unwrap() on an Err (main.rs:176): the panic
\* ends the task before anything is written. to_string returns a Result, but
\* the derived serializers of CpuState, MemState and Vec<ProcessInfo> have no
\* failing case, so this step is in no run of the program as built; SpecSer
\* adds it to see what line 176 does with an Err.
SerializeFail(h) ==
    /\ hstate[h] = "Writing"
    /\ Close(h, "serialize")
    /\ UNCHANGED <<route, pubs, lastSent>>
    /\ UNCHANGED <<hostVars, samplerVars>>

Handler(h) ==
    \/ \E c \in Channels : Connect(h, c)
    \/ RecvOk(h)
    \/ RecvLagged(h)
    \/ WriteOk(h)
    \/ WriteFail(h)

\* ----------------------------------------------------------- specifications
\* the sampler may start a cycle
Viewed == pc = "top" => cycle < MaxViewedCycle

Next ==
    \/ Viewed /\ SendRam
    \/ Viewed /\ SendProcess
    \/ Viewed /\ SendCpu
    \/ \E h \in Handlers : Handler(h)

Spec == Init /\ [][Next]_vars

\* the sampler's loop runs on a thread of its own (spawn_blocking) and only
\* sleeps between cycles, so it goes on taking steps; nothing is assumed of
\* the handlers, whose viewers may stall or leave at any time
SpecFair == Init /\ [][Next]_vars /\ WF_vars(Viewed /\ Sampler)

\* Spec with a serializer that can fail
SpecSer == Init /\ [][Next \/ \E h \in Handlers : SerializeFail(h)]_vars

\* the sampler alone, over every process list
SpecProc == InitProc /\ [][Sampler]_vars

\* the sampler alone, over every core and sensor list, both builds
SpecCpu == InitCpu /\ [][Sampler]_vars

\* ------------------------------------------------------------------ claims
Active(h) == hstate[h] \in {"Receiving", "Writing"}

\* cycles among the first n that started with the counter at 0
Refreshes(n) == (n + DecimationPeriod - 1) \div DecimationPeriod

\* C1: every finished cycle published a CPU snapshot; a cycle published the
\* memory and the process snapshot exactly when it began with the counter at
\* 0; the counter of cycle i is (i - 1) mod 5, so the first cycle publishes
\* all three; every window of 5 consecutive cycles holds exactly one memory
\* and one process publication.
C1_Decimation ==
    /\ send_less_freq \in 0..(DecimationPeriod - 1)
    /\ \A i \in 1..Len(cycleLog) :
          /\ "cpus" \in cycleLog[i].kinds
          /\ cycleLog[i].start = (i - 1) % DecimationPeriod
          /\ cycleLog[i].kinds =
                IF cycleLog[i].start = 0 THEN {"cpus", "ram", "process"}
                ELSE {"cpus"}
    /\ \A i \in 1..(Len(cycleLog) - DecimationPeriod + 1) :
          \A k \in {"ram", "process"} :
             Cardinality({j \in i..(i + DecimationPeriod - 1) :
                             k \in cycleLog[j].kinds}) = 1
    /\ pc = "top" => send_less_freq = Len(cycleLog) % DecimationPeriod

\* six cycles are over and the sixth refreshed memory and processes again
C1_Witness ==
    /\ Len(cycleLog) >= 6
    /\ cycleLog[6].kinds = {"cpus", "ram", "process"}
    /\ cycleLog[5].kinds = {"cpus"}

\* what a sampler running with no subscriber at all has published after
\* `cycle` cycles, at position pc
SoloPubs ==
    [cpus    |-> cycle,
     ram     |-> Refreshes(cycle) + (IF pc = "top" THEN 0 ELSE 1),
     process |-> Refreshes(cycle) + (IF pc = "send_cpu" THEN 1 ELSE 0)]

SoloPayload(c) ==
    CASE c = "cpus" -> BuildCpuState(core_temp, osCpus, osComponents)
      [] c = "ram" -> BuildMemState(osMem)
      [] c = "process" -> RankProcesses(osProcs)

C5_Independent ==
    /\ Viewed => ENABLED Sampler
    /\ send_less_freq = cycle % DecimationPeriod
    /\ pubs = SoloPubs
    /\ lastSent["cpus"] = IF pubs["cpus"] = 0 THEN None ELSE Some(SoloPayload("cpus"))
    /\ lastSent["ram"] = IF pubs["ram"] = 0 THEN None ELSE Some(SoloPayload("ram"))
    /\ lastSent["process"] = IF pubs["process"] = 0 THEN None ELSE processes
    /\ pc = "send_cpu" => lastSent["process"] = Some(SoloPayload("process"))

C5_Step ==
    /\ \A c \in Channels :
          (pubs'[c] # pubs[c] /\ chan[c].rx_cnt = 0) => chan'[c] = chan[c]
    /\ handlerVars' # handlerVars => UNCHANGED <<samplerVars, pubs, lastSent>>

\* C5: in every reachable state, whatever the handlers do, the sampler's next
\* step is enabled (up to the cycle bound), and its counter, its publication
\* counts and the values it published are those of a run with no subscriber
\* (the process list is compared when it is published, and is the sampler's
\* own list afterwards); a publish on a channel with no subscriber leaves the
\* channel as it was, and no handler step changes anything of the sampler's.
C5_SamplerNeverBlocks == []C5_Independent /\ [][C5_Step]_vars

\* the sampler has published on a channel nobody listens to while one
\* handler holds an unsent value and another has fallen behind
C5_Witness ==
    /\ pubs["cpus"] >= 3
    /\ chan["ram"].rx_cnt = 0 /\ pubs["ram"] >= 1
    /\ \E h \in Handlers : hstate[h] = "Writing" /\ route[h] = "cpus"
    /\ \E h \in Handlers : /\ hstate[h] = "Receiving"
                           /\ RecvOutcome(chan[route[h]], rxNext[h]) = "lagged"

\* what a channel delivers and to how many: its tail, its slots and its
\* receiver count
Delivery(c) == <<chan[c].pos, chan[c].buffer, chan[c].rx_cnt>>

\* what a handler can observe of its own relay
HView(h) == <<hstate[h], route[h], rxNext[h], msg[h], got[h], wrote[h], subAt[h], closedBy[h]>>

\* C2: a handler that subscribed when pubs publications had been made on its
\* channel has received nothing numbered pubs or lower, and the first value
\* it received, if it received any, is publication pubs + 1; so a value
\* published before it subscribed, stored or dropped, never reaches it.
C2_LateJoin ==
    \A h \in Handlers :
       Active(h) =>
          /\ \A i \in 1..Len(got[h]) : got[h][i] > subAt[h]
          /\ got[h] # <<>> => got[h][1] = subAt[h] + 1

\* a handler joined a channel after a publication that found no subscriber
\* and was dropped, and has received its first value
C2_Witness ==
    \E h \in Handlers :
       /\ Active(h)
       /\ subAt[h] >= 1
       /\ chan[route[h]].pos < pubs[route[h]]
       /\ got[h] = <<subAt[h] + 1>>

C3_Step ==
    \A h1, h2 \in Handlers :
       (h1 # h2 /\ route[h1] = route[h2] /\ Active(h2)) =>
          /\ (hstate[h1] = "Writing" /\ hstate'[h1] = "Closed") =>
                /\ HView(h2)' = HView(h2)
                /\ chan'[route[h2]].pos = chan[route[h2]].pos
                /\ chan'[route[h2]].buffer = chan[route[h2]].buffer
                /\ chan'[route[h2]].rx_cnt >= 1
          /\ (closedBy[h1] = "panic" /\ Active(h2)') =>
                /\ pubs'[route[h2]] # pubs[route[h2]] =>
                      /\ chan'[route[h2]].pos = chan[route[h2]].pos + 1
                      /\ RecvValue(chan'[route[h2]], chan[route[h2]].pos).seq
                            = pubs'[route[h2]]
                /\ got'[h2] # got[h2] =>
                      got'[h2] = Append(got[h2],
                                    IF got[h2] = <<>> THEN subAt[h2] + 1
                                    ELSE Last(got[h2]) + 1)

\* C3: the step in which one subscriber's write fails changes nothing of what
\* another subscriber of the same channel holds or can read next (its state,
\* read position, log, the channel's tail and slots), and leaves it counted
\* as a receiver; afterwards every publication on the channel is stored for
\* it, and each value it receives is the one after the last it received.
C3_DisconnectIsolation == [][C3_Step]_vars

\* one subscriber died on a write and the other, on the same channel, has
\* since relayed two values in a row up to the newest publication
C3_Witness ==
    \E h1, h2 \in Handlers :
       /\ h1 # h2 /\ route[h1] = route[h2]
       /\ closedBy[h1] = "panic"
       /\ hstate[h2] = "Receiving"
       /\ Len(wrote[h2]) >= 2
       /\ Last(wrote[h2]) = pubs[route[h2]]

C4_Step ==
    \A h \in Handlers :
       (hstate[h] = "Receiving" /\ hstate'[h] = "Writing") =>
          /\ msg'[h] # None
          /\ msg'[h][1].seq = pubs[route[h]]
          /\ msg'[h][1].data = lastSent[route[h]][1]

\* C4: whenever a receive succeeds, the value obtained is the newest
\* publication of the handler's channel at that moment: its number is the
\* count of publications made so far and its payload the last one sent.
C4_LatestOnly == [][C4_Step]_vars

\* a handler holds the third or a later publication of its channel, received
\* when it was the newest, while an earlier one had been dropped unseen
C4_Witness ==
    \E h \in Handlers :
       /\ hstate[h] = "Writing"
       /\ msg[h][1].seq = pubs[route[h]]
       /\ pubs[route[h]] >= 3
       /\ chan[route[h]].pos < pubs[route[h]]

C10_Step ==
    \A h \in Handlers :
       (hstate[h] = "Writing" /\ hstate'[h] = "Closed") =>
          /\ closedBy'[h] = "panic"
          /\ chan'[route[h]].rx_cnt = chan[route[h]].rx_cnt - 1
          /\ UNCHANGED <<samplerVars, pubs, lastSent>>
          /\ \A g \in Handlers \ {h} : HView(g)' = HView(g)
          /\ \A c \in Channels \ {route[h]} : Delivery(c)' = Delivery(c)

\* C10: a failed write ends that handler (Closed, by the panic of unwrap) and
\* releases its receiver, and nothing else moves in that step: the sampler's
\* state, the publications, what the other channels deliver and every other
\* handler are as before, so they go on running.
C10_WriteFailure == [][C10_Step]_vars

\* one handler died on a failed write; another is still relaying and the
\* sampler has completed cycles
C10_Witness ==
    \E h, g \in Handlers :
       /\ closedBy[h] = "panic"
       /\ hstate[g] = "Writing"
       /\ cycle >= 2
       /\ pc = "top"

\* the entries of a published process list whose cpu_usage ties, as pairs of
\* positions with the earlier position first
Ties(out) ==
    {p \in (1..Len(out)) \X (1..Len(out)) :
        p[1] < p[2] /\ out[p[1]].cpu_usage = out[p[2]].cpu_usage}

C7_BoundedSortedDesc ==
    lastSent["process"] # None =>
       /\ Len(lastSent["process"][1]) <= 4
       /\ \A i \in 1..(Len(lastSent["process"][1]) - 1) :
             lastSent["process"][1][i].cpu_usage
                >= lastSent["process"][1][i + 1].cpu_usage

\* a list of more than four processes, negative and positive usages among
\* them, was cut to four entries of strictly falling usage at the ends
C7_Witness ==
    /\ Len(osProcs) > 4
    /\ \E i \in 1..Len(osProcs) : osProcs[i].usage < 0
    /\ lastSent["process"] # None
    /\ Len(lastSent["process"][1]) = 4
    /\ lastSent["process"][1][1].cpu_usage > lastSent["process"][1][4].cpu_usage

\* C8 as stated: every published CPU snapshot has as many cores as the host
\* reports, in both builds and for any sensor list.
C8_CoresMatchCoreCount ==
    lastSent["cpus"] # None => Len(lastSent["cpus"][1].cores) = Len(osCpus)

\* C9 as stated: with no temperature sensor on the host, the published CPU
\* snapshot has one core per usage, in order, usage unchanged and temp
\* absent, an overall temp of 0 and core_temp false.
C9_NoSensors ==
    (lastSent["cpus"] # None /\ osComponents = <<>>) =>
       lastSent["cpus"][1] =
          [cores     |-> [i \in 1..Len(osCpus) |-> [usage |-> osCpus[i], temp |-> None]],
           temp      |-> 0,
           core_temp |-> FALSE]

\* the publication a handler received last, or the count of publications
\* when it subscribed if it has received none
LastSeen(h) == IF got[h] = <<>> THEN subAt[h] ELSE Last(got[h])

C11_Step ==
    \A h \in Handlers :
       /\ (hstate[h] = "Receiving" /\ pubs[route[h]] - LastSeen(h) >= 2) =>
             /\ RecvOutcome(chan[route[h]], rxNext[h]) = "lagged"
             /\ HView(h)' # HView(h) => hstate'[h] = "Closed"
       /\ (hstate[h] = "Receiving" /\ hstate'[h] = "Closed") =>
             /\ pubs[route[h]] - LastSeen(h) >= 2
             /\ closedBy'[h] = "lagged"
             /\ msg'[h] = None
             /\ chan'[route[h]].rx_cnt = chan[route[h]].rx_cnt - 1
             /\ chan'[route[h]].pos = chan[route[h]].pos
       /\ closedBy[h] = "lagged" => HView(h)' = HView(h)

\* C11: a handler waiting to receive when two or more publications have been
\* made on its channel since the last one it received (or since it
\* subscribed) gets the lagged error, and its only step is to end: it becomes
\* Closed by the lag, holds no value, and its receiver is released; a
\* receive ends a handler in no other case. From then on nothing of the
\* handler changes (it writes nothing and receives nothing) and it never
\* subscribes again.
C11_LagDrop == [][C11_Step]_vars

\* a handler was dropped for lagging while another subscriber of the same
\* channel keeps relaying and the sampler has published since
C11_Witness ==
    \E h, g \in Handlers :
       /\ closedBy[h] = "lagged"
       /\ route[g] = route[h]
       /\ hstate[g] = "Receiving"
       /\ wrote[g] # <<>>
       /\ Last(wrote[g]) = pubs[route[g]]
       /\ pubs[route[g]] >= 3

StrictlyIncreasing(s) == \A i, j \in 1..Len(s) : i < j => s[i] < s[j]

\* C12: for every subscribed handler, the publication numbers it has written
\* to its connection are strictly increasing, lie among the publications made
\* on its channel, and are the ones it received, in the order received; so
\* two values that two subscribers of one channel have both written appear
\* in the same order in both.
C12_PerChannelOrder ==
    /\ \A h \in Handlers :
          Active(h) =>
             /\ StrictlyIncreasing(got[h])
             /\ StrictlyIncreasing(wrote[h])
             /\ \A i \in 1..Len(wrote[h]) : wrote[h][i] \in 1..pubs[route[h]]
             /\ Len(wrote[h]) <= Len(got[h])
             /\ wrote[h] = SubSeq(got[h], 1, Len(wrote[h]))
    /\ \A h1, h2 \in Handlers :
          (Active(h1) /\ Active(h2) /\ route[h1] = route[h2]) =>
             \A i, j \in 1..Len(wrote[h1]) : \A k, l \in 1..Len(wrote[h2]) :
                (i < j /\ wrote[h1][i] = wrote[h2][k] /\ wrote[h1][j] = wrote[h2][l])
                   => k < l

\* two subscribers of one channel that joined at different times have both
\* relayed the same two publications, one of them a third besides
C12_Witness ==
    \E h1, h2 \in Handlers :
       /\ h1 # h2 /\ route[h1] = route[h2]
       /\ Active(h1) /\ Active(h2)
       /\ Len(wrote[h1]) >= 3
       /\ Len(wrote[h2]) >= 2
       /\ subAt[h1] # subAt[h2]
       /\ Last(wrote[h1]) = Last(wrote[h2])

C13_Step ==
    \A h \in Handlers :
       (Active(h) /\ hstate'[h] = "Closed") =>
          /\ UNCHANGED <<samplerVars, pubs, lastSent>>
          /\ chan'[route[h]].rx_cnt = chan[route[h]].rx_cnt - 1
          /\ chan'[route[h]].pos = chan[route[h]].pos
          /\ chan'[route[h]].buffer = chan[route[h]].buffer
          /\ \A c \in Channels \ {route[h]} : Delivery(c)' = Delivery(c)
          /\ \A g \in Handlers \ {h} :
                /\ HView(g)' = HView(g)
                /\ Active(g) =>
                      RecvOutcome(chan'[route[g]], rxNext'[g])
                         = RecvOutcome(chan[route[g]], rxNext[g])
          /\ route'[h] = route[h]

\* C13: the step in which a connection's handler ends, by a failed write or
\* a lagged receive, takes one receiver off that handler's channel and
\* changes nothing else: the sampler's counter, position and snapshots, the
\* publication counts and last values, the tail and slots of its own
\* channel, what the other two channels deliver, and every other handler's
\* state, read position and what its next receive will return.
C13_CancellationFrame == [][C13_Step]_vars

\* a handler on one channel has ended while a handler on another channel,
\* which had relayed a value, waits for its next one
C13_Witness ==
    \E h, g \in Handlers :
       /\ hstate[h] = "Closed"
       /\ route[g] # route[h]
       /\ hstate[g] = "Receiving"
       /\ wrote[g] # <<>>
       /\ chan[route[h]].rx_cnt = 0
       /\ pubs[route[h]] > chan[route[h]].pos

\* the moves of the connection state machine: Upgrading, then Relaying
\* (waiting to receive, or holding a value to write), then Closed
LifecycleMoves ==
    { <<"Upgrading", "Receiving">>,
      <<"Receiving", "Writing">>, <<"Writing", "Receiving">>,
      <<"Receiving", "Closed">>, <<"Writing", "Closed">> }

C14_Inv ==
    /\ \A h \in Handlers :
          /\ hstate[h] \in {"Upgrading", "Receiving", "Writing", "Closed"}
          /\ hstate[h] = "Upgrading" <=> route[h] = "none"
          /\ hstate[h] = "Closed" <=> closedBy[h] # "none"
    /\ \A c \in Channels :
          chan[c].rx_cnt = Cardinality({h \in Handlers : Active(h) /\ route[h] = c})

C14_Step ==
    \A h \in Handlers :
       /\ hstate'[h] # hstate[h] => <<hstate[h], hstate'[h]>> \in LifecycleMoves
       /\ hstate[h] = "Closed" => HView(h)' = HView(h)
       /\ route'[h] # route[h] =>
             /\ hstate[h] = "Upgrading" /\ hstate'[h] = "Receiving"
             /\ chan'[route'[h]].rx_cnt = chan[route'[h]].rx_cnt + 1

\* C14: a handler's state changes only Upgrading -> Relaying, within
\* Relaying (receive, write), and Relaying -> Closed; a Closed handler never
\* changes again; a handler takes a route and a receiver only in the step
\* that leaves Upgrading, so once, and each channel counts exactly the
\* handlers relaying on it as receivers.
C14_Lifecycle == []C14_Inv /\ [][C14_Step]_vars

\* every connection has ended, one by a lag and one by a failed write, no
\* channel has a receiver left, and the sampler has kept publishing
C14_Witness ==
    /\ \A h \in Handlers : hstate[h] = "Closed"
    /\ \E h \in Handlers : closedBy[h] = "lagged"
    /\ \E h \in Handlers : closedBy[h] = "panic"
    /\ \A c \in Channels : chan[c].rx_cnt = 0
    /\ \E c \in Channels : pubs[c] > chan[c].pos + 1

\* C15: with the sampler scheduled fairly and the handlers free to do
\* anything or nothing, every cycle up to the bound is eventually completed:
\* for each n the n-th CPU snapshot is eventually published, together with
\* the memory and process snapshots of every cycle among the first n that
\* began with the counter at 0.
C15_SamplerLiveness ==
    \A n \in 1..MaxViewedCycle :
       <>(/\ pubs["cpus"] >= n
          /\ pubs["ram"] >= Refreshes(n)
          /\ pubs["process"] >= Refreshes(n))

\* the sampler has completed every cycle while one subscriber sat on the
\* first CPU snapshot without writing it and another connection had ended
C15_Witness ==
    /\ cycle = MaxViewedCycle
    /\ pubs["ram"] >= 1 /\ pubs["process"] >= 1
    /\ \E h \in Handlers :
          hstate[h] = "Writing" /\ route[h] = "cpus" /\ msg[h][1].seq = 1
    /\ \E h \in Handlers : hstate[h] = "Closed"

\* a handler waits in recv and there is nothing for it to receive
Idle(h) ==
    hstate[h] = "Receiving" /\ RecvOutcome(chan[route[h]], rxNext[h]) = "empty"

\* C16 as stated: a handler's subscription ends only when the transport is
\* closed, which the handler meets as a failed write; while every write
\* succeeds nothing ends it.
C16_AsStated ==
    \A h \in Handlers : hstate[h] = "Closed" => closedBy[h] = "panic"

C16_Step ==
    \A h \in Handlers :
       /\ Idle(h) =>
             /\ HView(h)' = HView(h)
             /\ chan'[route[h]].rx_cnt >= 1
             /\ Idle(h)' \/ pubs'[route[h]] = pubs[route[h]] + 1
       /\ (Active(h) /\ hstate'[h] = "Closed") =>
             \/ hstate[h] = "Writing" /\ closedBy'[h] = "panic"
             \/ /\ hstate[h] = "Receiving" /\ closedBy'[h] = "lagged"
                /\ pubs[route[h]] - LastSeen(h) >= 2

\* C16 amended: a handler waiting with nothing to receive stays subscribed,
\* unchanged and counted as a receiver, through every step of the system,
\* and stops being idle only by a publication on its channel: no passage of
\* sampler cycles ends it. A subscription ends only by a failed write or by
\* a lagged receive (two or more publications since the handler's last
\* receive), and the latter ends it although every write succeeded.
C16_NoIdleTimeout == [][C16_Step]_vars

\* a memory subscriber that relayed the first snapshot has idled through the
\* following cycles and is still subscribed, while another handler, none of
\* whose writes failed, has been dropped for lagging
C16_Witness ==
    \E h, g \in Handlers :
       /\ route[h] = "ram" /\ Idle(h)
       /\ wrote[h] = <<1>>
       /\ cycle = MaxViewedCycle /\ pc = "top"
       /\ closedBy[g] = "lagged"

\* whole is the integer part of the usage given in tenths (toward zero)
IsIntegerPart(whole, tenths) ==
    IF tenths >= 0 THEN 10 * whole <= tenths /\ tenths < 10 * whole + 10
    ELSE 10 * whole >= tenths /\ tenths > 10 * whole - 10

\* the integer part of the usage given in tenths is no greater than whole
IntegerPartAtMost(tenths, whole) ==
    IF whole >= 0 THEN tenths < 10 * whole + 10 ELSE tenths <= 10 * whole

\* the host processes (by enumeration position) a published list names
Published(out) == {out[i].name : i \in 1..Len(out)}

\* C17: a published process list has exactly min(4, n) entries for a host
\* list of n processes; its entries name pairwise different host processes,
\* each with the integer part of that process's usage; and every host
\* process left out has an integer usage no greater than that of any entry.
C17_TopFour ==
    lastSent["process"] # None =>
       /\ Len(lastSent["process"][1]) = Min(4, Len(osProcs))
       /\ Published(lastSent["process"][1]) \subseteq 1..Len(osProcs)
       /\ Cardinality(Published(lastSent["process"][1])) = Len(lastSent["process"][1])
       /\ \A i \in 1..Len(lastSent["process"][1]) :
             IsIntegerPart(lastSent["process"][1][i].cpu_usage,
                           osProcs[lastSent["process"][1][i].name].usage)
       /\ \A k \in (1..Len(osProcs)) \ Published(lastSent["process"][1]) :
             \A i \in 1..Len(lastSent["process"][1]) :
                IntegerPartAtMost(osProcs[k].usage,
                                  lastSent["process"][1][i].cpu_usage)

\* five processes were cut to four; the one left out ties with the last one
\* kept, and the list holds both a negative and a positive reading
C17_Witness ==
    /\ Len(osProcs) = 5
    /\ lastSent["process"] # None
    /\ Len(lastSent["process"][1]) = 4
    /\ \E k \in (1..5) \ Published(lastSent["process"][1]) :
          IsIntegerPart(lastSent["process"][1][4].cpu_usage, osProcs[k].usage)
    /\ \E i \in 1..5 : osProcs[i].usage < 0
    /\ lastSent["process"][1][1].cpu_usage > 0

C18_Step ==
    \A h \in Handlers :
       SerializeFail(h) =>
          /\ hstate'[h] = "Receiving"
          /\ chan'[route[h]].rx_cnt = chan[route[h]].rx_cnt
          /\ rxNext'[h] = rxNext[h]

Run(from, n) == [i \in 1..n |-> from + i]

\* C19: what a subscribed handler has received, and what it has written, is
\* a run of consecutive publications of its channel that starts with the
\* first one made after it subscribed; the value it holds to write is the
\* next of the run. Nothing is relayed after a missed value.
C19_GapFree ==
    \A h \in Handlers :
       Active(h) =>
          /\ got[h] = Run(subAt[h], Len(got[h]))
          /\ wrote[h] = Run(subAt[h], Len(wrote[h]))
          /\ Len(got[h]) = Len(wrote[h]) + (IF hstate[h] = "Writing" THEN 1 ELSE 0)
          /\ hstate[h] = "Writing" => msg[h][1].seq = subAt[h] + Len(got[h])
          /\ subAt[h] + Len(got[h]) <= pubs[route[h]]

\* a handler that joined after the first publication has relayed the three
\* that followed, while another handler that missed one has been ended
C19_Witness ==
    \E h, g \in Handlers :
       /\ Active(h)
       /\ subAt[h] = 1
       /\ wrote[h] = <<2, 3, 4>>
       /\ closedBy[g] = "lagged"

\* C20: every channel always has the sampler's Sender and the two clones
\* main holds, and one more for each running handler, so at least one; the
\* sampler is always inside its loop; a waiting handler's receive never
\* returns channel-closed; and a handler that has ended was ended by a
\* lagged receive or by a failed write.
C20_NeverClosed ==
    /\ pc \in {"top", "send_proc", "send_cpu"}
    /\ \A c \in Channels :
          /\ chan[c].num_tx >= 1
          /\ chan[c].num_tx = 3 + Cardinality({h \in Handlers : Active(h)})
    /\ \A h \in Handlers :
          /\ hstate[h] = "Receiving" =>
                RecvOutcome(chan[route[h]], rxNext[h]) \in {"ok", "empty", "lagged"}
          /\ hstate[h] = "Closed" => closedBy[h] \in {"lagged", "panic"}

\* after the last cycle one handler still waits on its channel, which has
\* four Senders, and the other has ended, its Senders dropped
C20_Witness ==
    \E h, g \in Handlers :
       /\ Idle(h)
       /\ chan[route[h]].num_tx = 4
       /\ hstate[g] = "Closed"
       /\ cycle = MaxViewedCycle /\ pc = "top"

====
